---- MODULE Spec2Model ----
(***************************************************************************)
(* zwis: an in-process key-value cache with four engines behind one        *)
(* contract (Set, Get, Delete, Flush/Clear): MemoryCache, LRUCache,        *)
(* LFUCache and ARCCache.  One cache instance is modelled; NewCache picks  *)
(* its engine (kind) and capacity.  Every public method holds the engine's *)
(* mutex for its whole body, so a call is one atomic action.  A Go panic   *)
(* (nil dereference) is not recovered anywhere in the library: it is       *)
(* recorded in `panicked`, the state keeps what the call had already       *)
(* written, and no further call runs.                                      *)
(***************************************************************************)
EXTENDS Integers, Sequences, FiniteSets, TLC

\* ---------------------------------------------------------------- bounds
MaxCap == 2        \* capacities 1..MaxCap are constructed
MaxTime == 2       \* the clock runs 0..MaxTime; a positive ttl is given only when its deadline is before MaxTime
MaxTTL == 1        \* positive ttl values 1..MaxTTL
MaxFreq == 3       \* LFU: an item at frequency MaxFreq is not accessed again
MaxTimedCap == 1   \* ARC: positive ttls are given to caches of capacity <= MaxTimedCap
MaxLen == 2
MaxPlainLen == 3
MaxElems == 3            \* list elements alive at once under concurrent callers
MaxGetters == 1          \* calls to LRUCache.Get waiting for the write lock at once
MaxRunCap == 2           \* the capacities the writer/reader run is explored at
RunN == 4                \* the number of keys the writer/reader run uses
MaxTestCap == 8         \* the capacities the test script is run at
TestCap == 5            \* NewARCCache(5) of TestARCCacheAdaptiveness        \* ARC: calls that would leave more than MaxLen elements in T1+T2 are not explored

Keys == {"a", "b", "c"}
Values == {"v1", "v2"}
Nil == "nil"                      \* Go's nil interface value
None == "none"                    \* "no key" / "no entry" in the history variables
Flushed == "flushed"
TTLs == 0..MaxTTL                 \* time.Duration arguments of Set
CacheTypes == {"memory", "lru", "lfu", "arc"}
NoPanic == "no"

VARIABLES
    kind,       \* engine selected by NewCache
    capacity,   \* capacity passed to NewCache
    now,        \* time.Now()
    panicked,   \* NoPanic, or the place of the panic that ended the program
    ret,        \* what the last call returned: [value, found] (Get), Miss otherwise
    last,       \* history: the key of the last call if it was a Set that returned, Flushed
                \* if it was a Flush/Clear, else None
    evicted,    \* history: the keys of the entries the last call evicted under capacity pressure
    live,       \* history: per key, the value and expiry of its latest Set unless since
                \* deleted, cleared, evicted or seen expired by Get
    recent,     \* history (LRU): the live keys, the most recently Set or hit by Get first
    pc, hits,   \* the test script: the next step, and the keys its closing Gets found
    \* ARCCache
    p, t1, t2, b1, b2, cache,
    \* LRUCache
    list, lruCache,
    \* LRUCache under concurrent callers: lru.list element by element (heap[0] is
    \* the list's root, llen its len field) and the calls to Get that have done
    \* their read-locked lookup and wait for the write lock
    heap, llen, pending,
    \* TestLRUCacheConcurrency: the next index of the writer and of the reader
    wi, ri,
    \* LFUCache
    items, freqs, minFreq,
    \* MemoryCache
    memItems

arcVars == <<p, t1, t2, b1, b2, cache>>
lruVars == <<list, lruCache>>
conc == <<heap, llen, pending, wi, ri>>
lfuVars == <<items, freqs, minFreq>>
memVars == <<memItems>>
vars == <<kind, capacity, now, panicked, ret, last, evicted, live, recent, pc, hits,
          p, t1, t2, b1, b2, cache, list, lruCache, items, freqs, minFreq, memItems,
          heap, llen, pending, wi, ri>>

\* ------------------------------------------------------------ Go helpers
min(a, b) == IF a < b THEN a ELSE b
max(a, b) == IF a > b THEN a ELSE b

EmptyMap == <<>>

\* a nil *list.Element; an Element with its entry; the root of a list after New()
NilElem == 0 - 1
FreeElem == [next |-> NilElem, prev |-> NilElem, mine |-> FALSE,
             key |-> "none", value |-> "nil", expiration |-> 0]
Root == [FreeElem EXCEPT !.next = 0, !.prev = 0]
NewList == [i \in 0..MaxElems |-> IF i = 0 THEN Root ELSE FreeElem]
\* no call to Get in progress
Idle == [key |-> "none", elem |-> NilElem]
\* delete(m, k)
MapDelete(m, k) == [x \in DOMAIN m \ {k} |-> m[x]]
\* m[k] = v
MapPut(m, k, v) == [x \in DOMAIN m \cup {k} |-> IF x = k THEN v ELSE m[x]]

\* Deadlines are explored on every engine but ARC above MaxTimedCap, whose
\* four lists are then explored without them (and without the clock).
Timed == kind = "arc" => capacity <= MaxTimedCap
\* the Set calls explored: a deadline at or beyond the clock's horizon never passes
InHorizon(ttl) == ttl > 0 => (Timed /\ now + ttl < MaxTime)

\* var expiration; if ttl > 0 { expiration = time.Now().Add(ttl) }
Expiration(ttl) == IF ttl > 0 THEN now + ttl ELSE 0
\* item.expiration > 0 && item.expiration < time.Now().UnixNano()
\* !e.expiration.IsZero() && e.expiration.Before(time.Now())
IsExpired(expiration) == expiration > 0 /\ expiration < now

\* container/list: a list is the sequence of its elements front to back; an
\* element is [id, key, value, expiration] (its *arcItem / *entry with the
\* element's identity), a ghost element is a bare key.
Ids(l) == {l[i].id : i \in 1..Len(l)}
PushFront(l, e) == <<e>> \o l
Back(l) == l[Len(l)]
RemoveAt(l, i) == SubSeq(l, 1, i - 1) \o SubSeq(l, i + 1, Len(l))
IndexOfId(l, id) == CHOOSE i \in 1..Len(l) : l[i].id = id
\* l.Remove(e): a no-op when e is not an element of l
Remove(l, id) == IF id \in Ids(l) THEN RemoveAt(l, IndexOfId(l, id)) ELSE l
\* l.MoveToFront(e)
MoveToFront(l, id) ==
    IF id \in Ids(l) THEN <<l[IndexOfId(l, id)]>> \o RemoveAt(l, IndexOfId(l, id)) ELSE l
ElemOf(l, id) == l[IndexOfId(l, id)]
KeysOf(l) == {l[i].key : i \in 1..Len(l)}

\* ------------------------------------------------------- history helpers
Miss == [value |-> Nil, found |-> FALSE]
Hit(v) == [value |-> v, found |-> TRUE]
Dead == [value |-> Nil, exp |-> 0, set |-> FALSE]
NoLive == [k \in Keys |-> Dead]
\* live with the keys in gone dropped
Drop(lv, gone) == [k \in Keys |-> IF k \in gone THEN Dead ELSE lv[k]]
DropKey(lv, k) == [lv EXCEPT ![k] = Dead]
Store(lv, k, v, ttl) == [lv EXCEPT ![k] = [value |-> v, exp |-> Expiration(ttl), set |-> TRUE]]

\* ================================================================ ARCCache
\* The engine's fields as one record, so that the helper methods compose:
\* [p, t1, t2, b1, b2, cache, ev, panicked]; ev collects the keys replace evicts.
ArcState == [p |-> p, t1 |-> t1, t2 |-> t2, b1 |-> b1, b2 |-> b2, cache |-> cache,
             ev |-> {}, panicked |-> NoPanic]

\* a fresh *list.Element: an identity no linked element and no map entry has
NewId(c) == CHOOSE n \in 1..(Len(c.t1) + Len(c.t2) + 1) :
                n \notin Ids(c.t1) \cup Ids(c.t2) \cup {c.cache[k] : k \in DOMAIN c.cache}

listContains(l, id) == id \in Ids(l)
listContainsKey(l, key) == \E i \in 1..Len(l) : l[i] = key
\* the first ghost element holding key, 0 for nil
removeFromList(l, key) ==
    IF listContainsKey(l, key)
    THEN CHOOSE i \in 1..Len(l) : l[i] = key /\ \A j \in 1..(i - 1) : l[j] # key
    ELSE 0

\* ghost list after PushFront(key) and the trim to capacity
GhostPush(l, key) ==
    LET g == <<key>> \o l
    IN IF Len(g) > capacity THEN SubSeq(g, 1, Len(g) - 1) ELSE g

moveToT2(c, key) ==
    IF removeFromList(c.b1, key) # 0
    THEN [c EXCEPT !.b1 = RemoveAt(c.b1, removeFromList(c.b1, key))]
    ELSE IF removeFromList(c.b2, key) # 0
    THEN [c EXCEPT !.b2 = RemoveAt(c.b2, removeFromList(c.b2, key))]
    ELSE c

\* item := &arcItem{key: key, value: nil}; c.t2.PushFront(item); c.cache[key] = c.t2.Front()
PlaceholderAs(c, key, id) ==
    [c EXCEPT !.t2 = PushFront(c.t2, [id |-> id, key |-> key, value |-> Nil, expiration |-> 0]),
              !.cache = MapPut(c.cache, key, id)]
Placeholder(c, key) == PlaceholderAs(c, key, NewId(c))

\* request that steps p by the ratio without holding it within 0..capacity
requestUnclamped(c, key) ==
    IF listContainsKey(c.b1, key)
    THEN Placeholder(moveToT2([c EXCEPT !.p = c.p + max(Len(c.b2) \div Len(c.b1), 1)], key), key)
    ELSE IF listContainsKey(c.b2, key)
    THEN Placeholder(moveToT2([c EXCEPT !.p = c.p - max(Len(c.b1) \div Len(c.b2), 1)], key), key)
    ELSE c

request(c, key) ==
    IF listContainsKey(c.b1, key)
    THEN Placeholder(moveToT2([c EXCEPT !.p = min(capacity, c.p + max(Len(c.b2) \div Len(c.b1), 1))], key), key)
    ELSE IF listContainsKey(c.b2, key)
    THEN Placeholder(moveToT2([c EXCEPT !.p = max(0, c.p - max(Len(c.b1) \div Len(c.b2), 1))], key), key)
    ELSE c

\* lru := c.t1.Back(); c.t1.Remove(lru); c.b1.PushFront(key); delete(c.cache, key)
EvictT1(c) ==
    LET lru == Back(c.t1)
    IN [c EXCEPT !.t1 = Remove(c.t1, lru.id),
                 !.b1 = GhostPush(c.b1, lru.key),
                 !.cache = MapDelete(c.cache, lru.key),
                 !.ev = c.ev \cup {lru.key}]

\* the victim taken at the front of T2
EvictT2Front(c) ==
    IF Len(c.t2) = 0
    THEN [c EXCEPT !.panicked = "arc.replace"]
    ELSE LET mru == c.t2[1]
         IN [c EXCEPT !.t2 = Remove(c.t2, mru.id),
                      !.b2 = GhostPush(c.b2, mru.key),
                      !.cache = MapDelete(c.cache, mru.key),
                      !.ev = c.ev \cup {mru.key}]

\* lru := c.t2.Back(); c.t2.Remove(lru); c.b2.PushFront(key); delete(c.cache, key)
EvictT2(c) ==
    IF Len(c.t2) = 0
    THEN \* lru := c.t2.Back() is nil and c.t2.Remove(lru) dereferences it
         [c EXCEPT !.panicked = "arc.replace"]
    ELSE LET lru == Back(c.t2)
         IN [c EXCEPT !.t2 = Remove(c.t2, lru.id),
                      !.b2 = GhostPush(c.b2, lru.key),
                      !.cache = MapDelete(c.cache, lru.key),
                      !.ev = c.ev \cup {lru.key}]

replace(c, key) ==
    IF Len(c.t1) > 0 /\ (Len(c.t1) > c.p \/ (listContainsKey(c.b2, key) /\ Len(c.t1) = c.p))
    THEN EvictT1(c)
    ELSE EvictT2(c)

arcRemove(c, key) ==
    IF key \in DOMAIN c.cache
    THEN LET elt == c.cache[key]
         IN IF listContains(c.t1, elt)
            THEN [c EXCEPT !.t1 = Remove(c.t1, elt), !.b1 = GhostPush(c.b1, key),
                           !.cache = MapDelete(c.cache, key)]
            ELSE IF listContains(c.t2, elt)
            THEN [c EXCEPT !.t2 = Remove(c.t2, elt), !.b2 = GhostPush(c.b2, key),
                           !.cache = MapDelete(c.cache, key)]
            ELSE [c EXCEPT !.cache = MapDelete(c.cache, key)]
    ELSE c

\* the hit path shared by Get and Set: T1 -> front of T2 as a new element, T2 -> front
Promote(c, key, item) ==
    \* the new element of T2 takes the identity of the one removed from T1
    IF listContains(c.t1, c.cache[key])
    THEN [c EXCEPT !.t1 = Remove(c.t1, c.cache[key]),
                   !.t2 = PushFront(c.t2, [item EXCEPT !.id = c.cache[key]])]
    ELSE IF listContains(c.t2, c.cache[key])
    THEN [c EXCEPT !.t2 = PushFront(Remove(c.t2, c.cache[key]), item)]
    ELSE c

\* the element c.cache[key] points to
ArcElem(c, key) ==
    IF listContains(c.t1, c.cache[key]) THEN ElemOf(c.t1, c.cache[key]) ELSE ElemOf(c.t2, c.cache[key])

\* Element identities are pointers: only their equality matters.  The linked
\* elements are renamed 1..n in list order (T1 then T2) and the map follows;
\* 0 names an element that is in no list.
Renamed(c, id) ==
    IF id \in Ids(c.t1) THEN IndexOfId(c.t1, id)
    ELSE IF id \in Ids(c.t2) THEN Len(c.t1) + IndexOfId(c.t2, id)
    ELSE 0
Canon(c) ==
    [c EXCEPT !.t1 = [i \in 1..Len(c.t1) |-> [c.t1[i] EXCEPT !.id = i]],
              !.t2 = [i \in 1..Len(c.t2) |-> [c.t2[i] EXCEPT !.id = Len(c.t1) + i]],
              !.cache = [k \in DOMAIN c.cache |-> Renamed(c, c.cache[k])]]

\* write the record back to the fields
ArcCommit(c0) ==
    \E c \in {Canon(c0)} :
    /\ p' = c.p /\ t1' = c.t1 /\ t2' = c.t2 /\ b1' = c.b1 /\ b2' = c.b2 /\ cache' = c.cache
    /\ panicked' = c.panicked

ArcGetResult(c, key) ==
    IF key \in DOMAIN c.cache
    THEN LET item == ArcElem(c, key)
         IN IF IsExpired(item.expiration)
            THEN [c |-> arcRemove(c, key), ret |-> Miss, expired |-> TRUE]
            ELSE [c |-> Promote(c, key, item), ret |-> Hit(item.value), expired |-> FALSE]
    ELSE [c |-> request(c, key), ret |-> Miss, expired |-> FALSE]

ArcGet(key) ==
    /\ kind = "arc" /\ panicked = NoPanic
    /\ \E r \in {ArcGetResult(ArcState, key)} :
          /\ ArcCommit(r.c)
          /\ ret' = r.ret
    /\ UNCHANGED <<kind, capacity, now, lruVars, lfuVars, memVars>>

\* if c.t1.Len()+c.t2.Len() >= c.capacity { c.replace(key) }
ArcMakeRoom(c, key) ==
    IF Len(c.t1) + Len(c.t2) >= capacity THEN replace(c, key) ELSE c

\* c.t1.PushFront(item); c.cache[key] = c.t1.Front(), unless replace panicked
ArcInsert(c, key, value, ttl, id) ==
    IF c.panicked # NoPanic
    THEN c
    ELSE [c EXCEPT !.t1 = PushFront(c.t1, [id |-> id, key |-> key, value |-> value,
                                            expiration |-> Expiration(ttl)]),
                   !.cache = MapPut(c.cache, key, id)]

ArcInsertNew(c, key, value, ttl) == ArcInsert(c, key, value, ttl, NewId(c))

ArcSetResult(c, key, value, ttl) ==
    IF key \in DOMAIN c.cache
    THEN Promote(c, key, [ArcElem(c, key) EXCEPT !.value = value, !.expiration = Expiration(ttl)])
    ELSE ArcInsertNew(ArcMakeRoom(request(c, key), key), key, value, ttl)

ArcSet(key, value, ttl) ==
    /\ kind = "arc" /\ panicked = NoPanic
    /\ InHorizon(ttl)
    /\ ArcCommit(ArcSetResult(ArcState, key, value, ttl))
    /\ ret' = Miss
    /\ UNCHANGED <<kind, capacity, now, lruVars, lfuVars, memVars>>

ArcDelete(key) ==
    /\ kind = "arc" /\ panicked = NoPanic
    /\ ArcCommit(arcRemove(ArcState, key))
    /\ ret' = Miss
    /\ UNCHANGED <<kind, capacity, now, lruVars, lfuVars, memVars>>

\* Flush that leaves the target size p as it is
ArcFlushKeepsP ==
    /\ kind = "arc" /\ panicked = NoPanic
    /\ p' = p /\ t1' = <<>> /\ t2' = <<>> /\ b1' = <<>> /\ b2' = <<>> /\ cache' = EmptyMap
    /\ ret' = Miss
    /\ UNCHANGED <<kind, capacity, now, panicked, lruVars, lfuVars, memVars>>

ArcFlush ==
    /\ kind = "arc" /\ panicked = NoPanic
    /\ p' = 0 /\ t1' = <<>> /\ t2' = <<>> /\ b1' = <<>> /\ b2' = <<>> /\ cache' = EmptyMap
    /\ ret' = Miss
    /\ UNCHANGED <<kind, capacity, now, panicked, lruVars, lfuVars, memVars>>

\* ================================================================ LRUCache
\* [list, cache, ev]: the fields as one record; ev collects the evicted keys.
\* Get looks the key up under the read lock and then takes the write lock;
\* with no other call in between the two sections act as one.
LruState == [list |-> list, cache |-> lruCache, ev |-> {}]

removeElement(c, elem) ==
    [c EXCEPT !.list = Remove(c.list, elem.id), !.cache = MapDelete(c.cache, elem.key)]

\* removeOldest at the front of the list
removeNewest(c) ==
    IF Len(c.list) > 0
    THEN [removeElement(c, c.list[1]) EXCEPT !.ev = c.ev \cup {c.list[1].key}]
    ELSE c

removeOldest(c) ==
    IF Len(c.list) > 0
    THEN [removeElement(c, Back(c.list)) EXCEPT !.ev = c.ev \cup {Back(c.list).key}]
    ELSE c

LruCanon(c) ==
    [c EXCEPT !.list = [i \in 1..Len(c.list) |-> [c.list[i] EXCEPT !.id = i]],
              !.cache = [k \in DOMAIN c.cache |->
                            IF c.cache[k] \in Ids(c.list) THEN IndexOfId(c.list, c.cache[k]) ELSE 0]]

LruCommit(c0) ==
    \E c \in {LruCanon(c0)} : list' = c.list /\ lruCache' = c.cache

LruGetResult(c, key) ==
    IF key \notin DOMAIN c.cache
    THEN [c |-> c, ret |-> Miss, expired |-> FALSE]
    ELSE LET entry == ElemOf(c.list, c.cache[key])
         IN IF IsExpired(entry.expiration)
            THEN [c |-> removeElement(c, entry), ret |-> Miss, expired |-> TRUE]
            ELSE [c |-> [c EXCEPT !.list = MoveToFront(c.list, entry.id)],
                  ret |-> Hit(entry.value), expired |-> FALSE]

LruGet(key) ==
    /\ kind = "lru" /\ panicked = NoPanic
    /\ \E r \in {LruGetResult(LruState, key)} :
          /\ LruCommit(r.c)
          /\ ret' = r.ret
    /\ UNCHANGED <<kind, capacity, now, panicked, arcVars, lfuVars, memVars>>

\* room made only once the list is beyond capacity
LruMakeRoomLate(c) == IF Len(c.list) > capacity THEN removeOldest(c) ELSE c

\* if lru.list.Len() >= lru.capacity { lru.removeOldest() }
LruMakeRoom(c) == IF Len(c.list) >= capacity THEN removeOldest(c) ELSE c

\* elem := lru.list.PushFront(&entry{key, value, expiration}); lru.cache[key] = elem
LruInsert(c, key, value, ttl, id) ==
    [c EXCEPT !.list = PushFront(c.list, [id |-> id, key |-> key, value |-> value,
                                          expiration |-> Expiration(ttl)]),
              !.cache = MapPut(c.cache, key, id)]

LruSetResult(c, key, value, ttl) ==
    IF key \in DOMAIN c.cache
    THEN LET elem == c.cache[key]
             moved == MoveToFront(c.list, elem)
         IN [c EXCEPT !.list = [moved EXCEPT ![1] = [moved[1] EXCEPT !.value = value,
                                                                 !.expiration = Expiration(ttl)]]]
    ELSE LruInsert(LruMakeRoom(c), key, value, ttl, Len(c.list) + 1)

LruSet(key, value, ttl) ==
    /\ kind = "lru" /\ panicked = NoPanic
    /\ InHorizon(ttl)
    /\ LruCommit(LruSetResult(LruState, key, value, ttl))
    /\ ret' = Miss
    /\ UNCHANGED <<kind, capacity, now, panicked, arcVars, lfuVars, memVars>>

LruDeleteResult(c, key) ==
    IF key \in DOMAIN c.cache THEN removeElement(c, ElemOf(c.list, c.cache[key])) ELSE c

LruDelete(key) ==
    /\ kind = "lru" /\ panicked = NoPanic
    /\ LruCommit(LruDeleteResult(LruState, key))
    /\ ret' = Miss
    /\ UNCHANGED <<kind, capacity, now, panicked, arcVars, lfuVars, memVars>>

LruClear ==
    /\ kind = "lru" /\ panicked = NoPanic
    /\ list' = <<>> /\ lruCache' = EmptyMap
    /\ ret' = Miss
    /\ UNCHANGED <<kind, capacity, now, panicked, arcVars, lfuVars, memVars>>

\* ================================================================ LFUCache
\* items: key -> [value, frequency, expiration, freqNode]; a freqNode is named
\* by its freq (0 for nil) and freqs maps a freq to its node's items, the set
\* of their keys.  [items, freqs, minFreq, ev, panicked] is the engine.
LfuState == [items |-> items, freqs |-> freqs, minFreq |-> minFreq, ev |-> {},
             panicked |-> NoPanic]

\* delete(node.items, key); if len(node.items) == 0 { c.removeFreqNode(node) }
LeaveNode(c, key, node) ==
    IF node \in DOMAIN c.freqs
    THEN IF c.freqs[node] \ {key} = {}
         THEN [c EXCEPT !.freqs = MapDelete(c.freqs, node)]
         ELSE [c EXCEPT !.freqs = MapPut(c.freqs, node, c.freqs[node] \ {key})]
    ELSE c

\* if item.freqNode != nil { leave it }
Detach(c, key) ==
    IF c.items[key].freqNode # 0 THEN LeaveNode(c, key, c.items[key].freqNode) ELSE c

\* Attach that makes the item the only member of the node of nextFreq
AttachAlone(c, key, nextFreq) ==
    [c EXCEPT !.freqs = MapPut(c.freqs, nextFreq, {key}),
              !.items = MapPut(c.items, key,
                               [c.items[key] EXCEPT !.frequency = nextFreq, !.freqNode = nextFreq])]

\* item.frequency++; join (or create) the node of nextFreq
Attach(c, key, nextFreq) ==
    [c EXCEPT !.freqs = MapPut(c.freqs, nextFreq,
                               IF nextFreq \in DOMAIN c.freqs
                               THEN c.freqs[nextFreq] \cup {key} ELSE {key}),
              !.items = MapPut(c.items, key,
                               [c.items[key] EXCEPT !.frequency = nextFreq, !.freqNode = nextFreq])]

\* if item.frequency == 1 {..} else if item.frequency-1 == c.minFreq && len(c.freqs[c.minFreq].items) == 0 {..}
UpdateMinFreq(c, frequency) ==
    IF frequency = 1
    THEN [c EXCEPT !.minFreq = 1]
    ELSE IF frequency - 1 = c.minFreq
    THEN IF c.minFreq \notin DOMAIN c.freqs
         THEN \* c.freqs[c.minFreq] is nil and .items dereferences it
              [c EXCEPT !.panicked = "lfu.incrementFreq"]
         ELSE IF c.freqs[c.minFreq] = {} THEN [c EXCEPT !.minFreq = c.minFreq + 1] ELSE c
    ELSE c

incrementFreq(c, key) ==
    UpdateMinFreq(Attach(Detach(c, key), key, c.items[key].frequency + 1), c.items[key].frequency + 1)

lfuRemove(c, key) ==
    LeaveNode([c EXCEPT !.items = MapDelete(c.items, key)], key, c.items[key].freqNode)

\* evict picking among all items instead of the node at minFreq
EvictAny(c) == IF c.minFreq \in DOMAIN c.freqs THEN DOMAIN c.items ELSE {None}

\* the keys evict may pick: any one item of the node at minFreq (Go's map order)
EvictChoices(c) == IF c.minFreq \in DOMAIN c.freqs THEN c.freqs[c.minFreq] ELSE {None}

evict(c, victim) ==
    IF c.minFreq \in DOMAIN c.freqs
    THEN [lfuRemove(c, victim) EXCEPT !.ev = c.ev \cup {victim}]
    ELSE c

LfuCommit(c) ==
    /\ items' = c.items /\ freqs' = c.freqs /\ minFreq' = c.minFreq
    /\ panicked' = c.panicked

LfuGetResult(c, key) ==
    IF key \in DOMAIN c.items
    THEN IF IsExpired(c.items[key].expiration)
         THEN [c |-> lfuRemove(c, key), ret |-> Miss, expired |-> TRUE]
         ELSE [c |-> incrementFreq(c, key), ret |-> Hit(c.items[key].value), expired |-> FALSE]
    ELSE [c |-> c, ret |-> Miss, expired |-> FALSE]

LfuGet(key) ==
    /\ kind = "lfu" /\ panicked = NoPanic
    /\ key \in DOMAIN items => items[key].frequency < MaxFreq
    /\ \E r \in {LfuGetResult(LfuState, key)} :
          /\ LfuCommit(r.c)
          /\ ret' = IF r.c.panicked # NoPanic THEN Miss ELSE r.ret
    /\ UNCHANGED <<kind, capacity, now, arcVars, lruVars, memVars>>

\* item := &lfuItem{key, value, frequency: 0, expiration}; c.items[key] = item; c.incrementFreq(item)
LfuInsert(c, key, value, ttl) ==
    incrementFreq([c EXCEPT !.items = MapPut(c.items, key,
                      [value |-> value, frequency |-> 0,
                       expiration |-> Expiration(ttl), freqNode |-> 0])], key)

LfuSetResult(c, key, value, ttl, victim) ==
    IF key \in DOMAIN c.items
    THEN incrementFreq([c EXCEPT !.items = MapPut(c.items, key,
                           [c.items[key] EXCEPT !.value = value, !.expiration = Expiration(ttl)])], key)
    ELSE LfuInsert(IF Cardinality(DOMAIN c.items) >= capacity THEN evict(c, victim) ELSE c,
                   key, value, ttl)

LfuSet(key, value, ttl) ==
    /\ kind = "lfu" /\ panicked = NoPanic
    /\ InHorizon(ttl)
    /\ key \in DOMAIN items => items[key].frequency < MaxFreq
    /\ \E victim \in EvictChoices(LfuState) :
          LfuCommit(LfuSetResult(LfuState, key, value, ttl, victim))
    /\ ret' = Miss
    /\ UNCHANGED <<kind, capacity, now, arcVars, lruVars, memVars>>

LfuDeleteResult(c, key) == IF key \in DOMAIN c.items THEN lfuRemove(c, key) ELSE c

LfuDelete(key) ==
    /\ kind = "lfu" /\ panicked = NoPanic
    /\ LfuCommit(LfuDeleteResult(LfuState, key))
    /\ ret' = Miss
    /\ UNCHANGED <<kind, capacity, now, arcVars, lruVars, memVars>>

LfuFlush ==
    /\ kind = "lfu" /\ panicked = NoPanic
    /\ items' = EmptyMap /\ freqs' = EmptyMap /\ minFreq' = 0
    /\ ret' = Miss
    /\ UNCHANGED <<kind, capacity, now, panicked, arcVars, lruVars, memVars>>

\* ============================================================= MemoryCache
MemGetResult(m, key) ==
    IF key \notin DOMAIN m THEN Miss
    ELSE IF IsExpired(m[key].expiration) THEN Miss
    ELSE Hit(m[key].value)

MemGet(key) ==
    /\ kind = "memory" /\ panicked = NoPanic
    /\ ret' = MemGetResult(memItems, key)
    /\ UNCHANGED <<kind, capacity, now, panicked, arcVars, lruVars, lfuVars, memVars>>

MemSetResult(m, key, value, ttl) == MapPut(m, key, [value |-> value, expiration |-> Expiration(ttl)])

MemSet(key, value, ttl) ==
    /\ kind = "memory" /\ panicked = NoPanic
    /\ InHorizon(ttl)
    /\ memItems' = MemSetResult(memItems, key, value, ttl)
    /\ ret' = Miss
    /\ UNCHANGED <<kind, capacity, now, panicked, arcVars, lruVars, lfuVars>>

MemDelete(key) ==
    /\ kind = "memory" /\ panicked = NoPanic
    /\ memItems' = MapDelete(memItems, key)
    /\ ret' = Miss
    /\ UNCHANGED <<kind, capacity, now, panicked, arcVars, lruVars, lfuVars>>

MemFlush ==
    /\ kind = "memory" /\ panicked = NoPanic
    /\ memItems' = EmptyMap
    /\ ret' = Miss
    /\ UNCHANGED <<kind, capacity, now, panicked, arcVars, lruVars, lfuVars>>

\* ================================================================== clock
Tick ==
    /\ panicked = NoPanic
    /\ Timed
    /\ now < MaxTime
    /\ now' = now + 1
    /\ UNCHANGED <<kind, capacity, panicked, ret, last, evicted, live, recent, pc, hits, conc,
                   arcVars, lruVars, lfuVars, memVars>>

\* ============================================================ construction
\* NewCache(cacheType, capacity)
NewCache(cacheType, cap) ==
    /\ kind = cacheType
    /\ capacity = cap
    /\ now = 0
    /\ panicked = NoPanic
    /\ ret = Miss
    /\ last = None
    /\ evicted = {}
    /\ recent = <<>>
    /\ pc = 1 /\ hits = {}
    /\ heap = NewList /\ llen = 0 /\ pending = [g \in 1..MaxGetters |-> Idle]
    /\ wi = 0 /\ ri = 0
    /\ live = NoLive
    /\ p = 0 /\ t1 = <<>> /\ t2 = <<>> /\ b1 = <<>> /\ b2 = <<>> /\ cache = EmptyMap
    /\ list = <<>> /\ lruCache = EmptyMap
    /\ items = EmptyMap /\ freqs = EmptyMap /\ minFreq = 0
    /\ memItems = EmptyMap

InitARC == \E cap \in 1..MaxCap : NewCache("arc", cap)
InitLRU == \E cap \in 1..MaxCap : NewCache("lru", cap)
InitLFU == \E cap \in 1..MaxCap : NewCache("lfu", cap)
InitMem == \E cap \in 1..MaxCap : NewCache("memory", cap)

\* ------------------------------------------------------------- histories
hist == <<last, evicted, live, recent>>
script == <<pc, hits>>
NoHist == UNCHANGED hist

\* the sequence l without the keys in gone
Without(l, gone) == SelectSeq(l, LAMBDA k : k \notin gone)
\* LRU's recency order after key was used
Touch(l, key) == IF kind = "lru" THEN <<key>> \o Without(l, {key}) ELSE l
Forget(l, gone) == IF kind = "lru" THEN Without(l, gone) ELSE l

\* Get: an entry seen expired stops being live
HGet(key, expired) ==
    /\ live' = IF expired /\ panicked' = NoPanic THEN DropKey(live, key) ELSE live
    /\ last' = None
    /\ evicted' = {}
    /\ recent' = IF expired THEN Forget(recent, {key}) ELSE IF ret'.found THEN Touch(recent, key) ELSE recent
    /\ UNCHANGED <<script, conc>>
\* Set that returned: the keys it evicted (gone) stop being live, key is live with value
HSet(key, value, ttl, gone) ==
    /\ live' = IF panicked' # NoPanic THEN live ELSE Store(Drop(live, gone), key, value, ttl)
    /\ last' = IF panicked' # NoPanic THEN None ELSE key
    /\ evicted' = gone
    /\ recent' = IF panicked' # NoPanic THEN recent ELSE Touch(Forget(recent, gone), key)
    /\ UNCHANGED <<script, conc>>
HDelete(key) ==
    /\ live' = DropKey(live, key) /\ last' = None /\ evicted' = {}
    /\ recent' = Forget(recent, {key})
    /\ UNCHANGED <<script, conc>>
HFlush == live' = NoLive /\ last' = Flushed /\ evicted' = {} /\ recent' = <<>> /\ UNCHANGED <<script, conc>>

\* ---------------------------------------------------------------- calls
\* the ARC calls explored: those that leave at most MaxLen elements in T1 and T2
ArcBound == Len(t1') + Len(t2') <= MaxLen

ArcCalls ==
    \/ \E key \in Keys : ArcGet(key) /\ ArcBound
    \/ \E key \in Keys, value \in Values, ttl \in TTLs : ArcSet(key, value, ttl) /\ ArcBound
    \/ \E key \in Keys : ArcDelete(key)
    \/ ArcFlush

ArcCallsH ==
    \/ \E key \in Keys : ArcGet(key) /\ ArcBound /\ HGet(key, ArcGetResult(ArcState, key).expired)
    \/ \E key \in Keys, value \in Values, ttl \in TTLs :
          /\ ArcSet(key, value, ttl) /\ ArcBound
          /\ HSet(key, value, ttl, ArcSetResult(ArcState, key, value, ttl).ev)
    \/ \E key \in Keys : ArcDelete(key) /\ HDelete(key)
    \/ ArcFlush /\ HFlush

LruCallsH ==
    \/ \E key \in Keys : LruGet(key) /\ HGet(key, LruGetResult(LruState, key).expired)
    \/ \E key \in Keys, value \in Values, ttl \in TTLs :
          LruSet(key, value, ttl) /\ HSet(key, value, ttl, LruSetResult(LruState, key, value, ttl).ev)
    \/ \E key \in Keys : LruDelete(key) /\ HDelete(key)
    \/ LruClear /\ HFlush

LfuCallsH ==
    \/ \E key \in Keys : LfuGet(key) /\ HGet(key, LfuGetResult(LfuState, key).expired)
    \/ \E key \in Keys, value \in Values, ttl \in TTLs :
          LfuSet(key, value, ttl) /\ HSet(key, value, ttl, DOMAIN items \ DOMAIN items')
    \/ \E key \in Keys : LfuDelete(key) /\ HDelete(key)
    \/ LfuFlush /\ HFlush

MemCallsH ==
    \/ \E key \in Keys : MemGet(key) /\ HGet(key, key \in DOMAIN memItems /\ IsExpired(memItems[key].expiration))
    \/ \E key \in Keys, value \in Values, ttl \in TTLs : MemSet(key, value, ttl) /\ HSet(key, value, ttl, {})
    \/ \E key \in Keys : MemDelete(key) /\ HDelete(key)
    \/ MemFlush /\ HFlush

\* ARC alone, without the history variables
NextARC == (ArcCalls /\ NoHist /\ UNCHANGED <<script, conc>>) \/ Tick
NextLRU == LruCallsH \/ Tick
NextLFU == LfuCallsH \/ Tick
NextMem == MemCallsH \/ Tick
\* any engine, with the history variables
Next == ArcCallsH \/ LruCallsH \/ LfuCallsH \/ MemCallsH \/ Tick

Init == \E cacheType \in CacheTypes, cap \in 1..MaxCap : NewCache(cacheType, cap)

SpecARC == InitARC /\ [][NextARC]_vars
SpecLRU == InitLRU /\ [][NextLRU]_vars
SpecLFU == InitLFU /\ [][NextLFU]_vars
SpecMem == InitMem /\ [][NextMem]_vars

\* the two engines that evict on a plain capacity test
InitLRULFU == InitLRU \/ InitLFU
NextLRULFU == LruCallsH \/ LfuCallsH \/ Tick
SpecLRULFU == InitLRULFU /\ [][NextLRULFU]_vars
Spec == Init /\ [][Next]_vars

\* ARC used without deadlines and with one value: room for MaxPlainLen elements
PlainBound == Len(t1') + Len(t2') <= MaxPlainLen
ArcCallsPlain ==
    \/ \E key \in Keys : ArcGet(key) /\ PlainBound
    \/ \E key \in Keys : ArcSet(key, "v1", 0) /\ PlainBound
    \/ \E key \in Keys : ArcDelete(key)
    \/ ArcFlush
NextARCPlain == ArcCallsPlain /\ NoHist /\ UNCHANGED <<script, conc>>
SpecARCPlain == InitARC /\ [][NextARCPlain]_vars

\* ------------------------------------------------ TestARCCacheAdaptiveness
\* the calls of the test in order; its closing Gets are the last six
SetCall(key) == [op |-> "Set", key |-> key]
GetCall(key) == [op |-> "Get", key |-> key]
Script ==
    << SetCall("A"), SetCall("B"), SetCall("C"), SetCall("D"),
       GetCall("B"), GetCall("C"), GetCall("D"), SetCall("E"),
       GetCall("B"), GetCall("C"), GetCall("D"), GetCall("E"),
       SetCall("A"), GetCall("A"), GetCall("A"),
       SetCall("F"),
       GetCall("B"),
       GetCall("A"), GetCall("C"), GetCall("D"), GetCall("E"), GetCall("F") >>
Closing == {i \in 1..Len(Script) : i > Len(Script) - 6}

\* cache.Set(ctx, key, key, 0)
ScriptSet ==
    /\ pc <= Len(Script) /\ Script[pc].op = "Set"
    /\ ArcSet(Script[pc].key, Script[pc].key, 0)
    /\ pc' = pc + 1 /\ hits' = hits
    /\ NoHist /\ UNCHANGED conc

\* _, ok := cache.Get(ctx, key); hits collects the steps where ok
ScriptGet ==
    /\ pc <= Len(Script) /\ Script[pc].op = "Get"
    /\ ArcGet(Script[pc].key)
    /\ pc' = pc + 1 /\ hits' = IF ret'.found THEN hits \cup {pc} ELSE hits
    /\ NoHist /\ UNCHANGED conc

\* the test runs on NewARCCache(TestCap); the other capacities run the same calls
InitScript == \E cap \in 1..MaxTestCap : NewCache("arc", cap)
NextScript == ScriptSet \/ ScriptGet
SpecScript == InitScript /\ [][NextScript]_vars

\* ===================================== LRUCache under concurrent callers
\* Set, Delete and Clear hold lru.mutex for their whole body.  Get looks the
\* key up under RLock, releases it, and then takes Lock for the expiry test
\* and the move or removal: two steps, with the element it found kept in
\* pending.  lru.list is container/list, modelled with its pointers:
\* [heap, len, cache, ev, panicked] is the engine.
ConcState == [heap |-> heap, len |-> llen, cache |-> lruCache, ev |-> {},
              panicked |-> NoPanic]

\* l.root.next = &l.root; l.root.prev = &l.root; l.len = 0
ListInit(c) == [c EXCEPT !.heap[0].next = 0, !.heap[0].prev = 0, !.len = 0]

\* e.prev.next = e.next; e.next.prev = e.prev
Unlink(h, e) ==
    LET h1 == [h EXCEPT ![h[e].prev].next = h[e].next]
    IN [h1 EXCEPT ![h1[e].next].prev = h1[e].prev]

\* e.prev = at; e.next = at.next; e.prev.next = e; e.next.prev = e
LinkAfter(h, e, at) ==
    LET h1 == [h EXCEPT ![e].prev = at]
        h2 == [h1 EXCEPT ![e].next = h1[at].next]
        h3 == [h2 EXCEPT ![h2[e].prev].next = e]
    IN [h3 EXCEPT ![h3[e].next].prev = e]

\* l.insert(e, at): link e after at; e.list = l; l.len++
ListInsert(c, e, at) ==
    [c EXCEPT !.heap = [LinkAfter(c.heap, e, at) EXCEPT ![e].mine = TRUE], !.len = c.len + 1]

\* l.remove(e): unlink e; e.next = nil; e.prev = nil; e.list = nil; l.len--
listRemove(c, e) ==
    [c EXCEPT !.heap = [Unlink(c.heap, e) EXCEPT ![e].next = NilElem, ![e].prev = NilElem,
                                                  ![e].mine = FALSE],
              !.len = c.len - 1]

\* l.move(e, at)
ListMove(c, e, at) ==
    IF e = at THEN c ELSE [c EXCEPT !.heap = LinkAfter(Unlink(c.heap, e), e, at)]

\* l.Remove(e): if e.list == l { l.remove(e) }
ListRemove(c, e) == IF c.heap[e].mine THEN listRemove(c, e) ELSE c

\* l.MoveToFront(e): if e.list != l || l.root.next == e { return }; l.move(e, &l.root)
ListMoveToFront(c, e) ==
    IF ~c.heap[e].mine \/ c.heap[0].next = e THEN c ELSE ListMove(c, e, 0)

\* l.Back(): if l.len == 0 { return nil }; return l.root.prev
ListBack(c) == IF c.len = 0 THEN NilElem ELSE c.heap[0].prev

\* the elements linked from the root by next, front first (at most n of them)
RECURSIVE ChainFrom(_, _, _)
ChainFrom(h, e, n) ==
    IF e = 0 \/ e = NilElem \/ n = 0 THEN <<>> ELSE <<e>> \o ChainFrom(h, h[e].next, n - 1)
Chain(h) == ChainFrom(h, h[0].next, MaxElems + 1)

\* what a pointer in roots leads to by next and prev
RECURSIVE Reach(_, _, _)
Reach(h, roots, n) ==
    IF n = 0 THEN roots
    ELSE Reach(h, (roots \cup {h[i].next : i \in roots} \cup {h[i].prev : i \in roots})
                      \ {NilElem}, n - 1)

\* the elements no pointer of the program leads to any more are garbage
Collect(c, pend) ==
    LET used == Reach(c.heap, {0} \cup {c.cache[k] : k \in DOMAIN c.cache}
                                  \cup ({pend[g].elem : g \in DOMAIN pend} \ {NilElem}),
                      MaxElems + 1)
    IN [c EXCEPT !.heap = [i \in DOMAIN c.heap |-> IF i \in used THEN c.heap[i] ELSE FreeElem]]

\* a new Element: a slot that holds garbage (0 if there is none within MaxElems)
FreshElem(c) ==
    LET free == {i \in 1..MaxElems : c.heap[i] = FreeElem}
    IN IF free = {} THEN 0 ELSE CHOOSE i \in free : \A j \in free : i <= j

\* lru.list.Remove(elem); delete(lru.cache, elem.Value.(*entry).key)
ConcRemoveElement(c, e) ==
    IF e = 0
    THEN \* the root's Value is nil: the type assertion panics
         [c EXCEPT !.panicked = "lru.removeElement"]
    ELSE [ListRemove(c, e) EXCEPT !.cache = MapDelete(c.cache, c.heap[e].key)]

\* removeOldest taking the front of the list instead of the back
ConcRemoveNewest(c) ==
    IF ListBack(c) = NilElem THEN c
    ELSE [ConcRemoveElement(c, c.heap[0].next) EXCEPT !.ev = c.ev \cup {c.heap[c.heap[0].next].key}]

\* oldest := lru.list.Back(); if oldest != nil { lru.removeElement(oldest) }
ConcRemoveOldest(c) ==
    IF ListBack(c) = NilElem THEN c
    ELSE [ConcRemoveElement(c, ListBack(c)) EXCEPT !.ev = c.ev \cup {c.heap[ListBack(c)].key}]

\* if lru.list.Len() >= lru.capacity { lru.removeOldest() }
ConcMakeRoom(c) == IF c.len >= capacity THEN ConcRemoveOldest(c) ELSE c

\* elem := lru.list.PushFront(&entry{key, value, expiration}); lru.cache[key] = elem
ConcInsert(c, key, value, ttl, e) ==
    IF c.panicked # NoPanic THEN c
    ELSE [ListInsert([c EXCEPT !.heap[e] = [FreeElem EXCEPT !.key = key, !.value = value,
                                                  !.expiration = Expiration(ttl)]], e, 0)
             EXCEPT !.cache = MapPut(c.cache, key, e)]

\* the Element PushFront allocates once room was made
FreshAfterRoom(c) == FreshElem(Collect(ConcMakeRoom(c), pending))

ConcSetResult(c, key, value, ttl) ==
    IF key \in DOMAIN c.cache
    THEN [ListMoveToFront(c, c.cache[key])
             EXCEPT !.heap[c.cache[key]].value = value,
                    !.heap[c.cache[key]].expiration = Expiration(ttl)]
    ELSE ConcInsert(ConcMakeRoom(c), key, value, ttl, FreshAfterRoom(c))

\* Pointers are compared for equality only.  The elements still in use are
\* renamed in the order in which they are met from the root, then from the
\* map (keys in KeyOrder), then from the waiting Gets.
KeyOrder == <<"a", "b", "c", "key0", "key1", "key2", "key3", "key4">>
AddElem(seq, e) ==
    IF e = NilElem \/ (\E i \in 1..Len(seq) : seq[i] = e) THEN seq ELSE Append(seq, e)
RECURSIVE Met(_, _, _, _)
Met(h, seq, i, roots) ==
    IF i <= Len(seq)
    THEN Met(h, AddElem(AddElem(seq, h[seq[i]].next), h[seq[i]].prev), i + 1, roots)
    ELSE IF roots = <<>> THEN seq
    ELSE Met(h, AddElem(seq, Head(roots)), i, Tail(roots))
MapRoots(c) ==
    LET ks == SelectSeq(KeyOrder, LAMBDA k : k \in DOMAIN c.cache)
    IN [i \in 1..Len(ks) |-> c.cache[ks[i]]]
NameOf(seq, e) == IF e = NilElem THEN NilElem ELSE (CHOOSE i \in 1..Len(seq) : seq[i] = e) - 1
ConcCanon(c, pend) ==
    LET seq == Met(c.heap, <<0>>, 1, MapRoots(c) \o [g \in 1..MaxGetters |-> pend[g].elem])
    IN [c |-> [c EXCEPT !.heap = [i \in DOMAIN c.heap |->
                                    IF i < Len(seq)
                                    THEN [c.heap[seq[i + 1]] EXCEPT
                                             !.next = NameOf(seq, c.heap[seq[i + 1]].next),
                                             !.prev = NameOf(seq, c.heap[seq[i + 1]].prev)]
                                    ELSE FreeElem],
                         !.cache = [k \in DOMAIN c.cache |-> NameOf(seq, c.cache[k])]],
        pend |-> [g \in DOMAIN pend |-> [pend[g] EXCEPT !.elem = NameOf(seq, pend[g].elem)]]]

ConcCommit(c0, pend) ==
    \E r \in {ConcCanon(c0, pend)} :
        /\ heap' = r.c.heap /\ llen' = r.c.len /\ lruCache' = r.c.cache
        /\ panicked' = r.c.panicked
        /\ pending' = r.pend

\* the part of Get under RLock: elem, ok := lru.cache[key]; if !ok { return nil, false }
ConcGetLookup(g, key) ==
    /\ kind = "lru" /\ panicked = NoPanic
    /\ pending[g] = Idle /\ \A j \in 1..(g - 1) : pending[j] # Idle
    /\ IF key \in DOMAIN lruCache
       THEN pending' = [pending EXCEPT ![g] = [key |-> key, elem |-> lruCache[key]]] /\ ret' = ret
       ELSE pending' = pending /\ ret' = Miss
    /\ UNCHANGED <<kind, capacity, now, panicked, arcVars, lruVars, lfuVars, memVars, heap, llen>>

\* the part of Get under Lock: expired -> removeElement, else MoveToFront
ConcGetLockedResult(c, e) ==
    IF IsExpired(c.heap[e].expiration)
    THEN [c |-> ConcRemoveElement(c, e), ret |-> Miss]
    ELSE [c |-> ListMoveToFront(c, e), ret |-> Hit(c.heap[e].value)]

ConcGetLocked(g) ==
    /\ kind = "lru" /\ panicked = NoPanic
    /\ pending[g] # Idle
    /\ \E r \in {ConcGetLockedResult(ConcState, pending[g].elem)} :
          /\ ConcCommit(r.c, [pending EXCEPT ![g] = Idle])
          /\ ret' = r.ret
    /\ UNCHANGED <<kind, capacity, now, arcVars, list, lfuVars, memVars>>

ConcSet(key, value, ttl) ==
    /\ kind = "lru" /\ panicked = NoPanic
    /\ InHorizon(ttl)
    /\ (key \notin DOMAIN lruCache /\ ConcMakeRoom(ConcState).panicked = NoPanic)
          => FreshAfterRoom(ConcState) # 0
    /\ ConcCommit(ConcSetResult(ConcState, key, value, ttl), pending)
    /\ ret' = Miss
    /\ UNCHANGED <<kind, capacity, now, arcVars, list, lfuVars, memVars>>

ConcDeleteResult(c, key) ==
    IF key \in DOMAIN c.cache THEN ConcRemoveElement(c, c.cache[key]) ELSE c

ConcDelete(key) ==
    /\ kind = "lru" /\ panicked = NoPanic
    /\ ConcCommit(ConcDeleteResult(ConcState, key), pending)
    /\ ret' = Miss
    /\ UNCHANGED <<kind, capacity, now, arcVars, list, lfuVars, memVars>>

\* lru.list.Init(); lru.cache = make(map[interface{}]*list.Element)
ConcClear ==
    /\ kind = "lru" /\ panicked = NoPanic
    /\ ConcCommit([ListInit(ConcState) EXCEPT !.cache = EmptyMap], pending)
    /\ ret' = Miss
    /\ UNCHANGED <<kind, capacity, now, arcVars, list, lfuVars, memVars>>

\* the history kept for concurrent callers: the latest Set of each key
ConcHist(lv) ==
    /\ live' = lv
    /\ UNCHANGED <<last, evicted, recent, script, wi, ri>>
\* a Get that returns: an entry whose own deadline has passed stops being live
ConcLiveAfterGet(key) ==
    IF live[key].set /\ IsExpired(live[key].exp) THEN DropKey(live, key) ELSE live

\* the keys the concurrent callers use
ConcKeys == {"a", "b"}

ConcCalls ==
    \/ \E g \in 1..MaxGetters, key \in ConcKeys :
          /\ ConcGetLookup(g, key)
          /\ ConcHist(IF key \in DOMAIN lruCache THEN live ELSE ConcLiveAfterGet(key))
    \/ \E g \in 1..MaxGetters :
          ConcGetLocked(g) /\ ConcHist(ConcLiveAfterGet(pending[g].key))
    \/ \E key \in ConcKeys, value \in Values, ttl \in TTLs :
          /\ ConcSet(key, value, ttl)
          /\ ConcHist(IF panicked' # NoPanic THEN live
                      ELSE Store(Drop(live, ConcSetResult(ConcState, key, value, ttl).ev),
                                 key, value, ttl))
    \/ \E key \in ConcKeys : ConcDelete(key) /\ ConcHist(DropKey(live, key))
    \/ ConcClear /\ ConcHist(NoLive)

NextLRUConc == ConcCalls \/ Tick
SpecLRUConc == InitLRU /\ [][NextLRUConc]_vars

\* ================================================================= claims
\* a completed or panicking Get(key) step of whichever engine is constructed
GetStep(key) == ArcGet(key) \/ LruGet(key) \/ LfuGet(key) \/ MemGet(key)
SetStep(key, value, ttl) ==
    ArcSet(key, value, ttl) \/ LruSet(key, value, ttl) \/ LfuSet(key, value, ttl) \/ MemSet(key, value, ttl)
\* the deadline exp (0: none) has not passed
Alive(exp) == exp = 0 \/ now < exp

\* C1 (round trip): on every engine, a Get(k) that directly follows Set(k, v, ttl)
\* (only time may pass in between) returns (v, true) and does not panic, whenever
\* ttl == 0 or less than ttl has elapsed since the Set.
C1_RoundTrip ==
    [][\A k \in Keys :
          (last = k /\ GetStep(k) /\ Alive(live[k].exp))
              => (panicked' = NoPanic /\ ret' = Hit(live[k].value))]_vars

\* C2 (Get reports only live entries): on every engine, whenever Get(k) returns
\* found = true, k was Set and has since not been deleted, cleared, evicted or
\* expired, and the value returned is the value of that latest Set (so never the
\* value-less placeholder of an ARC ghost hit).  The instant now == expiresAt is
\* counted as not yet expired here.
C2_GetOnlyLive ==
    [][\A k \in Keys :
          (GetStep(k) /\ ret'.found)
              => (live[k].set /\ (live[k].exp = 0 \/ now <= live[k].exp)
                  /\ ret'.value = live[k].value)]_vars

\* C3 (ARC capacity): the resident entries |T1| + |T2| never exceed capacity.
C3_ArcCapacity == kind = "arc" => Len(t1) + Len(t2) <= capacity

\* C5 (totality): no call of any engine panics.
C5_NoPanic == panicked = NoPanic

\* the keys an LRU or LFU engine holds
Resident == IF kind = "lru" THEN DOMAIN lruCache ELSE IF kind = "lfu" THEN DOMAIN items ELSE {}
AtCapacity == Cardinality(Resident) = capacity

\* a Set on LRU or LFU of a key not resident, at capacity, evicts exactly one
\* resident key and inserts the new one
EvictsExactlyOne ==
    \A k \in Keys, v \in Values, ttl \in TTLs :
        (kind \in {"lru", "lfu"} /\ k \notin Resident /\ AtCapacity /\ SetStep(k, v, ttl))
            => \E victim \in Resident : Resident' = (Resident \ {victim}) \cup {k}

\* C4 (capacity, LRU and LFU): the number of resident entries never exceeds
\* capacity (LRU: its list has as many elements as its map has keys), and a
\* Set of a key that is not resident when the cache is at capacity evicts
\* exactly one resident entry before inserting the new one.
C4_CapacityLruLfu ==
    /\ [](kind \in {"lru", "lfu"} => Cardinality(Resident) <= capacity)
    /\ [](kind = "lru" => Len(list) = Cardinality(DOMAIN lruCache))
    /\ [][EvictsExactlyOne]_vars

\* an LFU cache at capacity 2 has just evicted a key on the Set of a new one
\* while holding an item of frequency above 1
C4_Witness ==
    /\ kind = "lfu" /\ capacity = 2 /\ AtCapacity /\ panicked = NoPanic
    /\ evicted # {} /\ last \in Resident
    /\ \E k \in Resident : items[k].frequency > 1

\* C6 (LRU eviction order): when a Set inserts a new key at capacity, the key
\* evicted is the one least recently used, where a use is a Set of the key or
\* a Get that hit it; the other resident keys stay.
C6_LruEvictsLeastRecent ==
    [][\A k \in Keys, v \in Values, ttl \in TTLs :
          (k \notin DOMAIN lruCache /\ Cardinality(DOMAIN lruCache) = capacity
             /\ LruSet(k, v, ttl))
              => /\ Len(recent) = capacity
                 /\ evicted' = {recent[Len(recent)]}
                 /\ DOMAIN lruCache' = (DOMAIN lruCache \ evicted') \cup {k}]_vars

\* Set(a), Set(b), Get(a), Set(c) at capacity 2 (up to the names of the keys):
\* the key evicted is not the one the surviving key was used after
C6_Witness ==
    /\ kind = "lru" /\ capacity = 2 /\ Len(recent) = 2
    /\ evicted # {} /\ last = recent[1]
    /\ [i \in 1..Len(list) |-> list[i].key] = recent

\* C7 (LFU eviction order): when a Set inserts a new key at capacity, exactly
\* one resident key is evicted and no resident key has a lower frequency than
\* the evicted one had.
C7_LfuEvictsMinFrequency ==
    [][\A k \in Keys, v \in Values, ttl \in TTLs :
          (k \notin DOMAIN items /\ Cardinality(DOMAIN items) >= capacity
             /\ LfuSet(k, v, ttl))
              => \E victim \in DOMAIN items :
                    /\ evicted' = {victim}
                    /\ DOMAIN items' = (DOMAIN items \ {victim}) \cup {k}
                    /\ \A j \in DOMAIN items :
                          items[j].frequency >= items[victim].frequency]_vars

\* an LFU cache at capacity 2 evicted a key while a key of higher frequency stayed
C7_Witness ==
    /\ kind = "lfu" /\ capacity = 2 /\ evicted # {} /\ panicked = NoPanic
    /\ Cardinality(DOMAIN items) = 2
    /\ \E k \in DOMAIN items : items[k].frequency >= 2

\* the closing Gets that found their key
ClosingHits == {Script[i].key : i \in hits \cap Closing}

\* C8 (ARC adaptiveness scenario): on an ARC cache of capacity 5, after
\* Set A, B, C, D; Get B, C, D; Set E; Get B, C, D, E; Set A; Get A; Get A;
\* Set F, the closing Get(B) misses and the closing Gets of A, C, D, E, F hit,
\* and no call of the script panics.
C8_AdaptivenessScenario ==
    (kind = "arc" /\ capacity = TestCap)
        => /\ panicked = NoPanic
           /\ pc > Len(Script) => ClosingHits = {"A", "C", "D", "E", "F"}

\* the script has run to its end at capacity 5, B a ghost and F the one key of T1
C8_Witness ==
    /\ kind = "arc" /\ capacity = TestCap /\ pc = Len(Script) + 1
    /\ panicked = NoPanic
    /\ "B" \notin ClosingHits /\ "F" \in ClosingHits

\* a list's entries without the identities of its elements
Strip(l) == [i \in 1..Len(l) |-> [key |-> l[i].key, value |-> l[i].value,
                                   expiration |-> l[i].expiration]]
\* key is in no list and not in the map
NeverSeen(key) ==
    /\ key \notin DOMAIN cache
    /\ key \notin KeysOf(t1) \cup KeysOf(t2)
    /\ ~listContainsKey(b1, key) /\ ~listContainsKey(b2, key)
\* the map resolves key to an element of T1, of T2
InT1(key) == key \in DOMAIN cache /\ cache[key] \in Ids(t1)
InT2(key) == key \in DOMAIN cache /\ cache[key] \in Ids(t2)

\* a Get that hits leaves the key's entry at the front of T2
GetHitPromotes ==
    \A k \in Keys :
        ((InT1(k) \/ InT2(k)) /\ ArcGet(k) /\ ret'.found)
            => /\ Len(t2') > 0 /\ t2'[1].key = k /\ t2'[1].value = ret'.value
               /\ cache'[k] = t2'[1].id
               /\ InT1(k) => (Len(t1') = Len(t1) - 1 /\ Strip(t2') = Strip(PushFront(t2, t2'[1])))

\* a Set of a never-seen key at capacity while |T1| > p evicts the tail of T1
\* into B1; T2 stays as it is and every key the map resolved into T2 still
\* resolves there
SetEvictsT1Tail ==
    \A k \in Keys, v \in Values, ttl \in TTLs :
        (NeverSeen(k) /\ Len(t1) + Len(t2) >= capacity /\ Len(t1) > p /\ ArcSet(k, v, ttl))
            => /\ panicked' = NoPanic
               /\ Len(t1') = Len(t1) /\ t1'[1].key = k
               /\ Strip(SubSeq(t1', 2, Len(t1'))) = Strip(SubSeq(t1, 1, Len(t1) - 1))
               /\ b1' = GhostPush(b1, Back(t1).key)
               /\ Strip(t2') = Strip(t2)
               /\ \A k2 \in Keys : InT2(k2) => InT2(k2)'

\* C9 (ARC promotion): a Get hit on a key in T1 moves its entry to the front of
\* T2 and a Get hit on a key in T2 moves it to the front of T2; while |T1| > p,
\* a Set of a never-seen key at capacity evicts the tail of T1 into B1 and
\* leaves every entry of T2 resident (in T2 and found under its key).
C9_ArcPromotion == [][GetHitPromotes /\ SetEvictsT1Tail]_vars

\* a Flush or Clear step of whichever engine is constructed
FlushStep == ArcFlush \/ LruClear \/ LfuFlush \/ MemFlush
\* the state of a cache just constructed: nothing resident, no ghosts, no
\* buckets, p and minFreq at 0
Empty ==
    /\ p = 0 /\ t1 = <<>> /\ t2 = <<>> /\ b1 = <<>> /\ b2 = <<>> /\ cache = EmptyMap
    /\ list = <<>> /\ lruCache = EmptyMap
    /\ items = EmptyMap /\ freqs = EmptyMap /\ minFreq = 0
    /\ memItems = EmptyMap
NoSet == \A k \in Keys, v \in Values, ttl \in TTLs : ~SetStep(k, v, ttl)

\* C10 (Clear/Flush): on every engine and from every state, Flush/Clear does not
\* panic and leaves the empty state (nothing resident; ARC: T1, T2, B1, B2 empty
\* and p = 0; LFU: no items, no buckets, minFreq = 0), so a second Flush/Clear
\* leaves exactly that state again; and from the empty state every step that is
\* not a Set leaves it empty and every Get returns not-found.
C10_ClearEmpties ==
    [][/\ FlushStep => (Empty' /\ panicked' = NoPanic)
       /\ Empty => /\ NoSet => (Empty' /\ panicked' = NoPanic)
                   /\ \A k \in Keys : GetStep(k) => ret' = Miss]_vars

\* an ARC cache right after a Flush
C10_Witness == kind = "arc" /\ last = Flushed /\ Empty /\ panicked = NoPanic

\* key has an entry in the constructed engine's lookup map
Stored(key) ==
    \/ kind = "arc" /\ key \in DOMAIN cache
    \/ kind = "lru" /\ key \in DOMAIN lruCache
    \/ kind = "lfu" /\ key \in DOMAIN items
    \/ kind = "memory" /\ key \in DOMAIN memItems
\* the expiration field of key's entry
StoredExp(key) ==
    IF kind = "arc" THEN ArcElem(ArcState, key).expiration
    ELSE IF kind = "lru" THEN ElemOf(list, lruCache[key]).expiration
    ELSE IF kind = "lfu" THEN items[key].expiration
    ELSE memItems[key].expiration

\* Set stores now + ttl as the deadline when ttl > 0 and no deadline otherwise
SetStoresDeadline ==
    \A k \in Keys, v \in Values, ttl \in TTLs :
        (SetStep(k, v, ttl) /\ panicked' = NoPanic)
            => (Stored(k)' /\ StoredExp(k)' = IF ttl > 0 THEN now + ttl ELSE 0)
\* Get misses from the deadline on, the deadline itself included
GetMissesFromDeadline ==
    \A k \in Keys :
        (live[k].set /\ live[k].exp > 0 /\ now >= live[k].exp /\ GetStep(k)) => ~ret'.found
\* an entry without deadline is not removed by Get
GetKeepsUntimed ==
    \A k \in Keys : (Stored(k) /\ StoredExp(k) = 0 /\ GetStep(k)) => Stored(k)'

\* C11 (expiry boundary): on every engine Set(k, v, ttl) with ttl > 0 at time t
\* stores the deadline t + ttl, Get(k) returns not-found at every time
\* now >= t + ttl (now == t + ttl included), and an entry stored with ttl <= 0
\* is never treated as expired.
C11_ExpiryBoundary == [][SetStoresDeadline /\ GetMissesFromDeadline /\ GetKeepsUntimed]_vars

\* ---- TestLRUCacheConcurrency: one writer and one reader on one LRU cache ----
\* fmt.Sprintf("key%d", i) and the value i
RunKeys == <<"key0", "key1", "key2", "key3", "key4">>
RunValues == <<"0", "1", "2", "3", "4">>
RunKey(i) == RunKeys[i + 1]
RunValue(i) == RunValues[i + 1]

\* writer: cache.Set(ctx, key_i, i, 0) for i = wi
RunWrite ==
    /\ wi < RunN
    /\ ConcSet(RunKey(wi), RunValue(wi), 0)
    /\ wi' = wi + 1
    /\ UNCHANGED <<hist, script, ri>>

\* reader: cache.Get(ctx, key_i) for i = ri, its lookup under RLock
RunLookup ==
    /\ ri < RunN
    /\ ConcGetLookup(1, RunKey(ri))
    /\ ri' = IF RunKey(ri) \in DOMAIN lruCache THEN ri ELSE ri + 1
    /\ UNCHANGED <<hist, script, wi>>

\* reader: the locked part of its Get; hits collects the Gets that found their
\* key while the writer was still running
RunLocked ==
    /\ ConcGetLocked(1)
    /\ ri' = ri + 1
    /\ hits' = IF ret'.found /\ wi < RunN THEN hits \cup {ri} ELSE hits
    /\ UNCHANGED <<hist, pc, wi>>

InitRun == \E cap \in 1..MaxRunCap : NewCache("lru", cap)
NextRun == RunWrite \/ RunLookup \/ RunLocked
SpecRun == InitRun /\ [][NextRun]_vars

\* no call to Get is between its two critical sections
Quiet == \A g \in 1..MaxGetters : pending[g] = Idle
\* the keys of the elements linked in lru.list
LinkedKeys == {heap[Chain(heap)[i]].key : i \in 1..Len(Chain(heap))}

\* C12 (LRU under concurrent callers): whenever no call is in progress, the
\* lookup map's key set equals the set of keys of the elements linked in the
\* list, no key is linked twice, the list's len field equals the number of
\* linked elements, and that number is at most capacity.
C12_LruConcurrentConsistency ==
    (kind = "lru" /\ Quiet)
        => /\ DOMAIN lruCache = LinkedKeys
           /\ Cardinality(LinkedKeys) = Len(Chain(heap))
           /\ llen = Len(Chain(heap))
           /\ Len(Chain(heap)) <= capacity

\* C13 (no lost update in LRU): a Set(k, v, 0) that completed and was not
\* followed by a Delete(k), a Clear or an eviction of k is not undone by a
\* concurrent Get(k): k stays in the lookup map with value v and no deadline,
\* so that a later Get(k) returns (v, true).
C13_LruNoLostUpdate ==
    kind = "lru"
        => \A k \in ConcKeys :
              (live[k].set /\ live[k].exp = 0)
                  => /\ k \in DOMAIN lruCache
                     /\ heap[lruCache[k]].value = live[k].value
                     /\ heap[lruCache[k]].expiration = 0

\* wg.Wait() returned: writer and reader have made all their calls
Finished == wi = RunN /\ ri = RunN /\ Quiet
\* key_(N-C) .. key_(N-1)
LastKeys == {RunKey(i) : i \in (RunN - capacity)..(RunN - 1)}
\* key_i is resident with value i and no deadline: Get(key_i) returns (i, true)
RunHolds(i) ==
    /\ RunKey(i) \in DOMAIN lruCache
    /\ heap[lruCache[RunKey(i)]].value = RunValue(i)
    /\ heap[lruCache[RunKey(i)]].expiration = 0
    /\ \E j \in 1..Len(Chain(heap)) : Chain(heap)[j] = lruCache[RunKey(i)]

Occurrences(key) ==
    Cardinality({i \in 1..Len(t1) : t1[i].key = key})
        + Cardinality({i \in 1..Len(t2) : t2[i].key = key})
        + Cardinality({i \in 1..Len(b1) : b1[i] = key})
        + Cardinality({i \in 1..Len(b2) : b2[i] = key})

\* C15 (ARC list disjointness): every key is held by at most one element
\* across T1, T2, B1 and B2.
C15_ArcListsDisjoint ==
    kind = "arc" => \A key \in Keys : Occurrences(key) <= 1

\* the elements linked in T1 or T2
ResidentElems == {t1[i] : i \in 1..Len(t1)} \cup {t2[i] : i \in 1..Len(t2)}

\* C16 (ARC lookup-map consistency): the lookup map's key set is the set of
\* keys held by the elements of T1 and T2, and each entry refers to the
\* element that holds its key; evicting one element therefore never drops the
\* map entry of another.
C16_ArcMapConsistent ==
    kind = "arc"
        => /\ DOMAIN cache = {e.key : e \in ResidentElems}
           /\ \A k \in DOMAIN cache : \E e \in ResidentElems : e.id = cache[k] /\ e.key = k

\* key is not resident (not in the map, not in T1 or T2) and is in B1 or B2
GhostOnly(key) ==
    /\ key \notin DOMAIN cache
    /\ key \notin KeysOf(t1) \cup KeysOf(t2)
    /\ listContainsKey(b1, key) \/ listContainsKey(b2, key)

\* a Set of a key in B1 or B2 leaves it out of both ghost lists, at the front
\* of T2 with the value set, out of T1, and found by Get
SetOnGhostHit ==
    \A k \in Keys, v \in Values, ttl \in TTLs :
        (GhostOnly(k) /\ ArcSet(k, v, ttl) /\ panicked' = NoPanic)
            => /\ ~listContainsKey(b1', k) /\ ~listContainsKey(b2', k)
               /\ Len(t2') > 0 /\ t2'[1].key = k /\ t2'[1].value = v
               /\ k \notin KeysOf(t1')
               /\ k \in DOMAIN cache' /\ cache'[k] = t2'[1].id

\* a Set of a key in no list puts it at the front of T1
SetOfNewKey ==
    \A k \in Keys, v \in Values, ttl \in TTLs :
        (NeverSeen(k) /\ ArcSet(k, v, ttl) /\ panicked' = NoPanic)
            => /\ Len(t1') > 0 /\ t1'[1].key = k /\ t1'[1].value = v
               /\ k \in DOMAIN cache' /\ cache'[k] = t1'[1].id

\* C17 (ARC Set on a ghost hit): a Set(k, v, ttl) of a key that is in B1 or B2
\* and not resident takes k out of the ghost lists and leaves it resident at
\* the front of T2, not in T1, with value v, so that Get(k) returns (v, true);
\* a Set of a key in no list inserts it at the front of T1.
C17_ArcSetOnGhostHit == [][SetOnGhostHit /\ SetOfNewKey]_vars

\* a Get or a Set of key
CallOn(key) == ArcGet(key) \/ \E v \in Values, ttl \in TTLs : ArcSet(key, v, ttl)
\* key is not in the map and is in B1, in B2
GhostHit(key) == key \notin DOMAIN cache /\ (listContainsKey(b1, key) \/ listContainsKey(b2, key))

\* p changes only in a Flush or in a Get or Set that hits a ghost list
PChangesOnGhostHit ==
    (kind = "arc" /\ p' # p) => (ArcFlush \/ \E k \in Keys : GhostHit(k) /\ CallOn(k))
\* the step of p on a hit in B1, and on a hit in B2 (B1 is looked at first);
\* the sizes are those before the key leaves its ghost list
PStep ==
    \A k \in Keys :
        /\ (kind = "arc" /\ k \notin DOMAIN cache /\ listContainsKey(b1, k) /\ CallOn(k))
              => p' = min(capacity, p + max(Len(b2) \div Len(b1), 1))
        /\ (kind = "arc" /\ k \notin DOMAIN cache /\ ~listContainsKey(b1, k)
                /\ listContainsKey(b2, k) /\ CallOn(k))
              => p' = max(0, p - max(Len(b1) \div Len(b2), 1))
PFlush == (kind = "arc" /\ ArcFlush) => p' = 0

VictimInT1(c, fromB2) ==
    Len(c.t1) > 0 /\ (Len(c.t1) > c.p \/ (fromB2 /\ Len(c.t1) = c.p))
\* the tail of T1 went to the front of B1, and the new key to the front of T1
T1TailEvicted(c, k) ==
    /\ Strip(SubSeq(t1', 2, Len(t1'))) = Strip(SubSeq(c.t1, 1, Len(c.t1) - 1))
    /\ Strip(t2') = Strip(c.t2)
    /\ b1' = GhostPush(c.b1, Back(c.t1).key) /\ b2' = c.b2
    /\ Back(c.t1).key # k => Back(c.t1).key \notin DOMAIN cache'
\* the tail of T2 went to the front of B2, and the new key to the front of T1
T2TailEvicted(c, k) ==
    /\ Len(c.t2) > 0
    /\ Strip(SubSeq(t1', 2, Len(t1'))) = Strip(c.t1)
    /\ Strip(t2') = Strip(SubSeq(c.t2, 1, Len(c.t2) - 1))
    /\ b2' = GhostPush(c.b2, Back(c.t2).key) /\ b1' = c.b1
    /\ Back(c.t2).key # k => Back(c.t2).key \notin DOMAIN cache'

ReplacementRule ==
    \A k \in Keys, v \in Values, ttl \in TTLs :
        \A c \in {request(ArcState, k)} :
            (kind = "arc" /\ k \notin DOMAIN cache /\ Len(c.t1) + Len(c.t2) >= capacity
                /\ ArcSet(k, v, ttl))
                => /\ panicked' = NoPanic
                   /\ Len(t1') > 0 /\ t1'[1].key = k
                   /\ Len(t1') + Len(t2') = Len(c.t1) + Len(c.t2)
                   /\ IF VictimInT1(c, ~listContainsKey(b1, k) /\ listContainsKey(b2, k))
                      THEN T1TailEvicted(c, k)
                      ELSE T2TailEvicted(c, k)

\* C19 (ARC replacement rule): when Set inserts a new key k while
\* |T1| + |T2| >= capacity, the victim is the tail of T1, moved to the front
\* of B1, if |T1| > 0 and (|T1| > p, or k was a B2 ghost hit of this Set and
\* |T1| = p); otherwise it is the tail of T2, moved to the front of B2.  The
\* victim leaves the lookup map and exactly one entry is evicted.
C19_ArcReplacementRule == [][ReplacementRule]_vars

\* key leaves T1, T2 and the map and goes to the front of the ghost list of
\* the list it was in, which drops its oldest key beyond capacity
MovedToGhost(k) ==
    /\ k \notin DOMAIN cache'
    /\ k \notin KeysOf(t1') \cup KeysOf(t2')
    /\ InT1(k) => (b1' = GhostPush(b1, k) /\ b2' = b2 /\ Strip(t2') = Strip(t2)
                   /\ Len(t1') = Len(t1) - 1)
    /\ InT2(k) => (b2' = GhostPush(b2, k) /\ b1' = b1 /\ Strip(t1') = Strip(t1)
                   /\ Len(t2') = Len(t2) - 1)
    /\ \A k2 \in DOMAIN cache \ {k} : k2 \in DOMAIN cache'

DeleteKeepsHistory ==
    \A k \in Keys : ((InT1(k) \/ InT2(k)) /\ ArcDelete(k)) => MovedToGhost(k)
ExpiredGetKeepsHistory ==
    \A k \in Keys :
        ((InT1(k) \/ InT2(k)) /\ IsExpired(ArcElem(ArcState, k).expiration) /\ ArcGet(k))
            => (MovedToGhost(k) /\ ret' = Miss)
DeleteOfAbsentKey ==
    \A k \in Keys :
        (k \notin DOMAIN cache /\ ArcDelete(k))
            => UNCHANGED <<p, t1, t2, b1, b2, cache>>

\* C20 (ARC removal keeps history): Delete(k) of a resident key, and Get(k) of
\* a resident key whose deadline has passed, take k out of T1 or T2 and out of
\* the lookup map and put k at the front of B1 (if it was in T1) or B2 (if it
\* was in T2), dropping the ghost list's oldest key beyond capacity; |B1| and
\* |B2| never exceed capacity; Delete of a non-resident key changes nothing.
C20_ArcRemovalKeepsHistory ==
    /\ [](kind = "arc" => (Len(b1) <= capacity /\ Len(b2) <= capacity))
    /\ [][DeleteKeepsHistory /\ ExpiredGetKeepsHistory /\ DeleteOfAbsentKey]_vars

\* the buckets registered in freqs that hold key
BucketsOf(key) == {f \in DOMAIN freqs : key \in freqs[f]}

\* every item is in the one bucket of its frequency, which its freqNode
\* refers to; no registered bucket is empty; the buckets hold the items' keys
BucketsConsistent ==
    /\ \A k \in DOMAIN items :
          /\ BucketsOf(k) = {items[k].frequency}
          /\ items[k].freqNode = items[k].frequency
    /\ \A f \in DOMAIN freqs : freqs[f] # {}
    /\ UNION {freqs[f] : f \in DOMAIN freqs} = DOMAIN items

\* a Set of a new key ends with frequency 1
NewKeyStartsAtOne ==
    \A k \in Keys, v \in Values, ttl \in TTLs :
        (k \notin DOMAIN items /\ LfuSet(k, v, ttl) /\ panicked' = NoPanic)
            => (k \in DOMAIN items' /\ items'[k].frequency = 1)
\* a Get that hits and a Set of an existing key raise the frequency by 1
UseRaisesByOne ==
    \A k \in Keys :
        (k \in DOMAIN items /\ panicked' = NoPanic
            /\ \/ LfuGet(k) /\ ret'.found
               \/ \E v \in Values, ttl \in TTLs : LfuSet(k, v, ttl))
            => (k \in DOMAIN items' /\ items'[k].frequency = items[k].frequency + 1)

\* C21 (LFU bucket invariant): after every completed Set, Get, Delete or
\* Flush each resident item is a member of exactly one frequency bucket, the
\* bucket freqs[item.frequency] that item.freqNode refers to, no bucket
\* registered in freqs is empty, and the union of the buckets' members is the
\* key set of items.  A new key ends its Set with frequency 1; each Get hit
\* and each Set of an existing key raises the item's frequency by exactly 1.
C21_LfuBuckets ==
    /\ []((kind = "lfu" /\ panicked = NoPanic) => BucketsConsistent)
    /\ [][NewKeyStartsAtOne /\ UseRaisesByOne]_vars

\* a full cache with two buckets, of frequencies 1 and 2, after a Get hit
C21_Witness ==
    /\ kind = "lfu" /\ panicked = NoPanic /\ ret.found
    /\ capacity = MaxCap /\ Cardinality(DOMAIN items) = capacity
    /\ DOMAIN freqs = {1, 2}

\* C22 (LFU minFreq invariant): after every completed Set, Get, Delete or
\* Flush, removals by expiry included, whenever the cache holds at least one
\* item minFreq equals the smallest frequency among the resident items.
C22_LfuMinFreq ==
    (kind = "lfu" /\ panicked = NoPanic /\ DOMAIN items # {})
        => /\ \E k \in DOMAIN items : items[k].frequency = minFreq
           /\ \A k \in DOMAIN items : items[k].frequency >= minFreq

\* key is the only member of the bucket whose freq is minFreq
AloneAtMinFreq(k) ==
    /\ k \in DOMAIN items /\ items[k].frequency = minFreq
    /\ minFreq \in DOMAIN freqs /\ freqs[minFreq] = {k}
\* a Get hit or a Set of an existing key
UseOf(k) ==
    \/ ~IsExpired(items[k].expiration) /\ LfuGet(k)
    \/ \E v \in Values, ttl \in TTLs : LfuSet(k, v, ttl)

\* the use that empties the bucket at minFreq completes, unlinks the bucket
\* and advances minFreq to the item's new frequency
MinFreqAdvances ==
    \A k \in Keys :
        (kind = "lfu" /\ AloneAtMinFreq(k) /\ UseOf(k))
            => /\ panicked' = NoPanic
               /\ minFreq \notin DOMAIN freqs'
               /\ items'[k].frequency = minFreq + 1
               /\ minFreq' = minFreq + 1
\* an item whose frequency becomes 1 sets minFreq to 1
MinFreqResets ==
    \A k \in Keys, v \in Values, ttl \in TTLs :
        (kind = "lfu" /\ k \notin DOMAIN items /\ LfuSet(k, v, ttl) /\ panicked' = NoPanic)
            => (items'[k].frequency = 1 /\ minFreq' = 1)

\* C23 (LFU minFreq advance): when a Get hit or a Set of an existing key
\* moves an item out of the bucket whose freq equals minFreq and the bucket
\* thereby becomes empty, the operation completes, the empty bucket is
\* unlinked and minFreq becomes the item's new frequency (old minFreq + 1);
\* when an item's frequency becomes 1, minFreq becomes 1.
C23_LfuMinFreqAdvance == [][MinFreqAdvances /\ MinFreqResets]_vars

\* the number of entries the engine holds and counts against its capacity
ResidentCount ==
    IF kind = "arc" THEN Len(t1) + Len(t2)
    ELSE IF kind = "lru" THEN Len(list)
    ELSE IF kind = "lfu" THEN Cardinality(DOMAIN items)
    ELSE Cardinality(DOMAIN memItems)
\* the engine's lookup map holds key, and the entry's deadline has passed
HoldsExpired(k) ==
    IF kind = "arc" THEN (InT1(k) \/ InT2(k)) /\ IsExpired(ArcElem(ArcState, k).expiration)
    ELSE IF kind = "lru"
    THEN k \in DOMAIN lruCache /\ IsExpired(ElemOf(list, lruCache[k]).expiration)
    ELSE IF kind = "lfu" THEN k \in DOMAIN items /\ IsExpired(items[k].expiration)
    ELSE k \in DOMAIN memItems /\ IsExpired(memItems[k].expiration)
\* the engine's lookup map holds key
Mapped(k) == k \in DOMAIN cache \cup DOMAIN lruCache \cup DOMAIN items \cup DOMAIN memItems

ExpiredGetRemoves ==
    \A k \in Keys :
        (HoldsExpired(k) /\ GetStep(k))
            => /\ ret' = Miss
               /\ ~Mapped(k)'
               /\ ResidentCount' = ResidentCount - 1

\* C24 (lazy expiration removes the entry): in every engine a Get(k) that
\* finds k's entry expired removes the entry from the resident state before
\* returning not-found: the resident entry count decreases by one and the
\* entry no longer occupies capacity.
C24_ExpiredGetRemoves == [][ExpiredGetRemoves]_vars

====
